---- MODULE Spec2Model ----
(***************************************************************************)
(* Model of the GitHub-webhook -> Discord relay of src/main.py:            *)
(* the Flask webhook receiver (producer threads), the module-level         *)
(* push_queue, and the process_pushes worker task(s) that the bot's event  *)
(* loop runs after on_ready.                                               *)
(***************************************************************************)
EXTENDS Naturals, Sequences, FiniteSets, TLC

(* ------------------------------ bounds -------------------------------- *)
\* number of HTTP requests / simulate commands handled in one run
MaxRequests == 2
\* number of times the gateway dispatches the ready event in one run
MaxReady == 2

(* --------------------------- JSON values ------------------------------ *)
\* Python/JSON values are tagged records; strings are sequences of characters.
JNull == [t |-> "null"]
JStr(s) == [t |-> "str", s |-> s]
JNum(n) == [t |-> "num", n |-> n]
JList(l) == [t |-> "list", l |-> l]
JObj(o) == [t |-> "obj", o |-> o]
\* a request body that is not JSON at all
Unparsable == [t |-> "unparsable"]
EmptyObj == [k \in {} |-> JNull]

\* dict.get(key, default)
Get(o, k, default) == IF k \in DOMAIN o THEN o[k] ELSE default

\* Python truthiness of a parsed value (`if not data`)
Truthy(v) ==
    CASE v.t = "null" -> FALSE
      [] v.t = "str"  -> Len(v.s) > 0
      [] v.t = "num"  -> v.n # 0
      [] v.t = "list" -> Len(v.l) > 0
      [] v.t = "obj"  -> DOMAIN v.o # {}
      [] OTHER        -> FALSE

\* str.split('/') : the list of the pieces between the separators
RECURSIVE SplitAcc(_, _, _)
SplitAcc(s, cur, acc) ==
    IF s = <<>> THEN Append(acc, cur)
    ELSE IF Head(s) = "/" THEN SplitAcc(Tail(s), <<>>, Append(acc, cur))
    ELSE SplitAcc(Tail(s), Append(cur, Head(s)), acc)
Split(s) == SplitAcc(s, <<>>, <<>>)
Last(l) == l[Len(l)]
\* '/' in ref
HasSlash(s) == \E i \in 1..Len(s) : s[i] = "/"

(* --------------------------- request inputs --------------------------- *)
RefsHeads == <<"r", "e", "f", "s", "/", "h", "e", "a", "d", "s", "/">>
RefMain == RefsHeads \o <<"m">>
FullName == <<"o", "/", "r">>
RepoUrl == <<"u">>

Commit1 == JObj([id |-> JStr(<<"a", "b", "c">>), message |-> JStr(<<"f", "i", "x">>),
                 url |-> JStr(<<"c">>), author |-> JObj([name |-> JStr(<<"d", "e", "v">>)])])

\* a well-formed push payload
BodyMain == JObj([ref |-> JStr(RefMain),
                  repository |-> JObj([full_name |-> JStr(FullName), html_url |-> JStr(RepoUrl)]),
                  pusher |-> JObj([name |-> JStr(<<"d", "e", "v">>)]),
                  commits |-> JList(<<Commit1>>)])
\* a push payload with only a ref (no slash), everything else absent
BodyMin == JObj([ref |-> JStr(<<"m">>)])
\* parseable, but pusher is null
BodyNullPusher == JObj([ref |-> JStr(RefMain), pusher |-> JNull])
\* parseable, but repository is null
BodyNullRepo == JObj([ref |-> JStr(RefMain), repository |-> JNull])
\* parseable, but ref is a number
BodyNumRef == JObj([ref |-> JNum(5)])
\* valid JSON: the empty object
BodyEmptyObj == JObj(EmptyObj)
\* valid JSON: a non-empty list
BodyList == JList(<<JNum(1)>>)

Bodies == {Unparsable, BodyEmptyObj, BodyList, BodyMain, BodyNullRepo, BodyNumRef}

\* X-GitHub-Event values; "issues" stands for any type other than push and ping
Events == {"push", "ping", "issues"}

\* X-Hub-Signature-256 values.  Hmac(k, b) stands for the text
\* "sha256=" + hexdigest(HMAC-SHA256(k, b)).
SigAbsent == [h |-> "absent"]
SigEmpty == [h |-> "empty"]
SigNonAscii == [h |-> "nonascii"]
Hmac(k, b) == [h |-> "hmac", key |-> k, body |-> b]
OtherBody(b) == IF b = BodyMain THEN BodyMin ELSE BodyMain
\* absent, empty, not ASCII, signed with the right key, with another key,
\* and signed with the right key over another body
SigsFor(b) == {SigAbsent, SigEmpty, SigNonAscii, Hmac("k1", b), Hmac("k2", b),
               Hmac("k1", OtherBody(b))}

\* the POST requests tried: every signature with every event type on the
\* well-formed body, and every body with the three main signatures
PostRequests ==
    {[event |-> e, sig |-> s, body |-> BodyMain] : e \in Events, s \in SigsFor(BodyMain)}
    \cup UNION {{[event |-> e, sig |-> s, body |-> b] :
                   e \in Events, s \in {SigAbsent, Hmac("k1", b), Hmac("k2", b)}}
                : b \in Bodies}

(* ------------------------------ state --------------------------------- *)
VARIABLES
    DISCORD_TOKEN,   \* os.getenv('DISCORD_TOKEN'): "" when missing
    GITHUB_SECRET,   \* os.getenv('GITHUB_WEBHOOK_SECRET', '')
    CHANNEL_ID,      \* int(os.getenv('DISCORD_CHANNEL_ID', 0))
    main_pc,         \* position of main()
    flask_up,        \* the Flask thread serves requests
    ready,           \* the bot's ready signal has fired
    closed,          \* bot.is_closed()
    n_ready,         \* ready events dispatched so far
    task_pc,         \* position of each process_pushes task
    task_item,       \* the queue item a task is sending
    running,         \* the task that holds the event loop (0: none)
    push_queue,      \* queue.Queue(): its items, oldest first
    unfinished,      \* Queue.unfinished_tasks
    n_req,           \* requests and commands handled so far
    resp,            \* the response of the last HTTP request
    n_put,           \* completed push_queue.put calls (numbers the items)
    attempts,        \* channel.send calls made per item
    outcome,         \* what became of each item
    sent,            \* messages posted to the channel, in order
    fmt_data,        \* a request body given to the push branch and the formatter
    fmt_clock,       \* what datetime.now() returns
    fmt_reply,       \* what the push branch answered and put for fmt_data
    fmt_msgs         \* what process_github_push built for the item, call by call

vars == <<DISCORD_TOKEN, GITHUB_SECRET, CHANNEL_ID, main_pc, flask_up, ready, closed,
          n_ready, task_pc, task_item, running, push_queue, unfinished,
          n_req, resp, n_put, attempts, outcome, sent,
          fmt_data, fmt_clock, fmt_reply, fmt_msgs>>

\* the variables of the formatting runs (SpecFormat); the pipeline leaves them alone
fmt_vars == <<fmt_data, fmt_clock, fmt_reply, fmt_msgs>>

config == <<DISCORD_TOKEN, GITHUB_SECRET, CHANNEL_ID>>
bot_vars == <<ready, closed, n_ready>>
task_vars == <<task_pc, task_item, running>>
out_vars == <<attempts, outcome, sent>>

Tasks == 1..MaxReady
NoTask == 0
NoItem == [id |-> 0]
NoResp == [code |-> 0]

Init ==
    /\ DISCORD_TOKEN \in {"", "tok"}
    /\ GITHUB_SECRET \in {"", "k1"}
    /\ CHANNEL_ID \in {0, 1}
    /\ main_pc = "start"
    /\ flask_up = FALSE
    /\ ready = FALSE
    /\ closed = FALSE
    /\ n_ready = 0
    /\ task_pc = [w \in Tasks |-> "none"]
    /\ task_item = [w \in Tasks |-> NoItem]
    /\ running = NoTask
    /\ push_queue = <<>>
    /\ unfinished = 0
    /\ n_req = 0
    /\ resp = NoResp
    /\ n_put = 0
    /\ attempts = <<>>
    /\ outcome = <<>>
    /\ sent = <<>>
    /\ fmt_data = JNull
    /\ fmt_clock = 0
    /\ fmt_reply = NoResp
    /\ fmt_msgs = <<>>

(* ------------------------ signature verification ---------------------- *)
\* hmac.compare_digest(a, b) on two str: raises TypeError unless both are ASCII
compare_digest(a, b) ==
    IF b = SigNonAscii THEN "TypeError" ELSE IF a = b THEN "true" ELSE "false"

\* verify_signature without the `not secret_token` test
verify_signature_no_bypass(payload_body, secret_token, signature_header) ==
    IF signature_header \in {SigAbsent, SigEmpty}
    THEN "true"
    ELSE compare_digest(Hmac(secret_token, payload_body), signature_header)

\* verify_signature(payload_body, secret_token, signature_header)
verify_signature(payload_body, secret_token, signature_header) ==
    IF secret_token = "" \/ signature_header \in {SigAbsent, SigEmpty}
    THEN "true"
    ELSE compare_digest(Hmac(secret_token, payload_body), signature_header)

(* --------------------------- webhook handler -------------------------- *)
\* request.get_json(silent=True): None when the body does not parse
get_json(body) == IF body = Unparsable THEN JNull ELSE body

Unknown == JStr(<<"u", "n", "k", "n", "o", "w", "n">>)
NoZen == JStr(<<"N", "o", " ", "z", "e", "n">>)

Error500(e) == [code |-> 500, error |-> e]
\* the outcome of a handler run: its response and what it put on the queue
Outcome(r, q) == [resp |-> r, put |-> q]
NoPut == <<>>

\* ping_branch changed to hand the payload to the queue as well
ping_branch_enqueues(body) ==
    LET parsed == get_json(body)
        data == IF Truthy(parsed) THEN parsed ELSE JObj(EmptyObj)
    IN  IF data.t # "obj" THEN Outcome(Error500("AttributeError"), NoPut)
        ELSE Outcome([code |-> 200, status |-> "pong",
                      zen |-> Get(data.o, "zen", NoZen), event |-> "ping"],
                     <<[event |-> "ping", data |-> data]>>)

\* the `ping` branch of github_webhook
ping_branch(body) ==
    LET parsed == get_json(body)
        data == IF Truthy(parsed) THEN parsed ELSE JObj(EmptyObj)
    IN  IF data.t # "obj" THEN Outcome(Error500("AttributeError"), NoPut)
        ELSE Outcome([code |-> 200, status |-> "pong",
                      zen |-> Get(data.o, "zen", NoZen), event |-> "ping"], NoPut)

\* push_branch without the `if not data` test
push_branch_no_data_test(body) ==
    LET data == get_json(body)
    IN  IF data.t # "obj"
        THEN Outcome(Error500("AttributeError"), NoPut)
        ELSE LET ref == Get(data.o, "ref", Unknown)
                 repository == Get(data.o, "repository", JObj(EmptyObj))
             IN  IF repository.t # "obj"
                 THEN Outcome(Error500("AttributeError"), NoPut)
                 ELSE LET repo == Get(repository.o, "full_name", Unknown)
                          item == [event |-> "push", data |-> data]
                      IN  IF ref.t # "str"
                          THEN Outcome(Error500("AttributeError"), <<item>>)
                          ELSE Outcome([code |-> 200, status |-> "received",
                                        event |-> "push", repository |-> repo,
                                        branch |-> Last(Split(ref.s)),
                                        queued |-> TRUE], <<item>>)

\* the `push` branch of github_webhook
push_branch(body) ==
    LET data == get_json(body)
    IN  IF ~Truthy(data)
        THEN Outcome([code |-> 400, error |-> "No JSON data"], NoPut)
        ELSE IF data.t # "obj"
        THEN Outcome(Error500("AttributeError"), NoPut)
        ELSE LET ref == Get(data.o, "ref", Unknown)
                 repository == Get(data.o, "repository", JObj(EmptyObj))
             IN  IF repository.t # "obj"
                 THEN Outcome(Error500("AttributeError"), NoPut)
                 ELSE LET repo == Get(repository.o, "full_name", Unknown)
                          item == [event |-> "push", data |-> data]
                      IN  IF ref.t # "str"
                          THEN Outcome(Error500("AttributeError"), <<item>>)
                          ELSE Outcome([code |-> 200, status |-> "received",
                                        event |-> "push", repository |-> repo,
                                        branch |-> Last(Split(ref.s)),
                                        queued |-> TRUE], <<item>>)

\* github_webhook() for a POST: verification, then the event type
webhook_post(req, secret) ==
    LET v == verify_signature(req.body, secret, req.sig)
    IN  IF v = "TypeError" THEN Outcome(Error500("TypeError"), NoPut)
        ELSE IF v = "false"
        THEN Outcome([code |-> 401, error |-> "Invalid signature"], NoPut)
        ELSE IF req.event = "ping" THEN ping_branch(req.body)
        ELSE IF req.event = "push" THEN push_branch(req.body)
        ELSE Outcome([code |-> 200, status |-> "ignored", event |-> req.event], NoPut)

\* push_queue.put(item): the item is numbered by the order of the put calls
Put(items) ==
    /\ push_queue' = push_queue \o [i \in 1..Len(items) |->
                                      [id |-> n_put + i, event |-> items[i].event,
                                       data |-> items[i].data]]
    /\ n_put' = n_put + Len(items)
    /\ unfinished' = unfinished + Len(items)
    /\ attempts' = attempts \o [i \in 1..Len(items) |-> 0]
    /\ outcome' = outcome \o [i \in 1..Len(items) |-> "queued"]

\* github_webhook_POST made to wait until no send is pending before it answers
github_webhook_POST_awaits_delivery(req) ==
    /\ flask_up
    /\ n_req < MaxRequests
    /\ \A w \in Tasks : task_pc[w] # "sending"
    /\ n_req' = n_req + 1
    /\ LET out == webhook_post(req, GITHUB_SECRET)
       IN  /\ resp' = out.resp
           /\ Put(out.put)
    /\ UNCHANGED <<config, fmt_vars, main_pc, flask_up, bot_vars, task_vars, sent>>

\* POST /github-webhook, handled by a Flask thread
github_webhook_POST(req) ==
    /\ flask_up
    /\ n_req < MaxRequests
    /\ n_req' = n_req + 1
    /\ LET out == webhook_post(req, GITHUB_SECRET)
       IN  /\ resp' = out.resp
           /\ Put(out.put)
    /\ UNCHANGED <<config, fmt_vars, main_pc, flask_up, bot_vars, task_vars, sent>>

\* GET /github-webhook
github_webhook_GET ==
    /\ flask_up
    /\ n_req < MaxRequests
    /\ n_req' = n_req + 1
    /\ resp' = [code |-> 200, status |-> "active", service |-> "github-webhook-receiver"]
    /\ UNCHANGED <<config, fmt_vars, main_pc, flask_up, bot_vars, task_vars, push_queue,
                   unfinished, n_put, out_vars>>

\* GET /health
health ==
    /\ flask_up
    /\ n_req < MaxRequests
    /\ n_req' = n_req + 1
    /\ resp' = [code |-> 200, status |-> "healthy", queue_size |-> Len(push_queue)]
    /\ UNCHANGED <<config, fmt_vars, main_pc, flask_up, bot_vars, task_vars, push_queue,
                   unfinished, n_put, out_vars>>

(* ------------------------------- main() ------------------------------- *)
\* main_start without the two configuration checks
main_start_unchecked ==
    /\ main_pc = "start"
    /\ main_pc' = "flask_started"
    /\ flask_up' = TRUE
    /\ UNCHANGED <<config, fmt_vars, bot_vars, task_vars, push_queue, unfinished, n_req, resp,
                   n_put, out_vars>>

\* main(): the two configuration checks, then the Flask thread is started
main_start ==
    /\ main_pc = "start"
    /\ IF DISCORD_TOKEN = "" \/ CHANNEL_ID = 0
       THEN /\ main_pc' = "exit"
            /\ UNCHANGED flask_up
       ELSE /\ main_pc' = "flask_started"
            /\ flask_up' = TRUE
    /\ UNCHANGED <<config, fmt_vars, bot_vars, task_vars, push_queue, unfinished, n_req, resp,
                   n_put, out_vars>>

\* bot.run changed to start the consumer loop with the bot, before any ready
\* event and without waiting for it
bot_run_starts_worker ==
    /\ main_pc = "flask_started"
    /\ main_pc' = "bot_run"
    /\ task_pc' = [task_pc EXCEPT ![1] = "outer"]
    /\ UNCHANGED <<config, fmt_vars, flask_up, bot_vars, task_item, running, push_queue, unfinished,
                   n_req, resp, n_put, out_vars>>

\* bot.run(DISCORD_TOKEN): the login succeeds and the bot connects, or
\* discord.LoginFailure ends main() and with it the daemon Flask thread
bot_run ==
    /\ main_pc = "flask_started"
    /\ \E login_ok \in BOOLEAN :
         IF login_ok
         THEN main_pc' = "bot_run" /\ UNCHANGED flask_up
         ELSE main_pc' = "exit" /\ flask_up' = FALSE
    /\ UNCHANGED <<config, fmt_vars, bot_vars, task_vars, push_queue, unfinished, n_req, resp,
                   n_put, out_vars>>

\* the gateway's READY (again after a reconnect whose RESUME failed) sets the
\* ready signal and dispatches on_ready(), which does
\* bot.loop.create_task(process_pushes())
on_ready ==
    /\ main_pc = "bot_run"
    /\ ~closed
    /\ running = NoTask
    /\ n_ready < MaxReady
    /\ ready' = TRUE
    /\ n_ready' = n_ready + 1
    /\ task_pc' = [task_pc EXCEPT ![n_ready + 1] = "wait_ready"]
    /\ UNCHANGED <<config, fmt_vars, main_pc, flask_up, closed, task_item, running, push_queue,
                   unfinished, n_req, resp, n_put, out_vars>>

\* bot.close(): is_closed() becomes true
bot_close ==
    /\ main_pc = "bot_run"
    /\ ~closed
    /\ running = NoTask
    /\ closed' = TRUE
    /\ UNCHANGED <<config, fmt_vars, main_pc, flask_up, ready, n_ready, task_vars,
                   push_queue, unfinished, n_req, resp, n_put, out_vars>>

\* bot.run returns after the close: the loop cancels the tasks left and
\* main() returns, which ends the process and its daemon thread
main_return ==
    /\ main_pc = "bot_run"
    /\ closed
    /\ running = NoTask
    /\ main_pc' = "exit"
    /\ flask_up' = FALSE
    /\ task_pc' = [w \in Tasks |-> IF task_pc[w] = "none" THEN "none" ELSE "done"]
    /\ task_item' = [w \in Tasks |-> NoItem]
    /\ UNCHANGED <<config, fmt_vars, ready, closed, n_ready, running, push_queue, unfinished,
                   n_req, resp, n_put, out_vars>>

(* --------------------------- !simulate command ------------------------ *)
test_data == JObj([ref |-> JStr(RefMain),
                   repository |-> JObj([full_name |-> JStr(FullName),
                                        html_url |-> JStr(RepoUrl)]),
                   pusher |-> JObj([name |-> JStr(<<"a", "d", "m">>),
                                    avatar_url |-> JStr(<<>>)]),
                   commits |-> JList(<<Commit1>>),
                   compare |-> JStr(<<"c", "m", "p">>)])

\* simulate(ctx): only an administrator's command puts the test push
simulate ==
    /\ main_pc = "bot_run"
    /\ ready
    /\ ~closed
    /\ running = NoTask
    /\ n_req < MaxRequests
    /\ n_req' = n_req + 1
    /\ \E administrator \in BOOLEAN :
         IF administrator
         THEN Put(<<[event |-> "push", data |-> test_data]>>)
         ELSE UNCHANGED <<push_queue, unfinished, n_put, attempts, outcome>>
    /\ UNCHANGED <<config, fmt_vars, main_pc, flask_up, bot_vars, task_vars, resp, sent>>

(* ------------------------- process_github_push ------------------------ *)
Min(a, b) == IF a < b THEN a ELSE b

\* the placeholder of process_github_push: 'Unknown'
UnknownName == JStr(<<"U", "n", "k", "n", "o", "w", "n">>)

\* a commit entry the loop over commits[:3] handles without raising
CommitOk(c) ==
    /\ c.t = "obj"
    /\ Get(c.o, "id", JStr(<<>>)).t \in {"str", "list"}
    /\ Get(c.o, "message", JStr(<<>>)).t = "str"
    /\ Get(c.o, "author", JObj(EmptyObj)).t = "obj"

\* whether building the embed raises (the handler's `except Exception`)
FormatRaises(data) ==
    LET repo == Get(data.o, "repository", JObj(EmptyObj))
        pusher == Get(data.o, "pusher", JObj(EmptyObj))
        commits == Get(data.o, "commits", JList(<<>>))
        ref == Get(data.o, "ref", JStr(<<>>))
    IN  \/ ref.t # "str"
        \/ repo.t # "obj"
        \/ pusher.t # "obj"
        \/ ~ \/ commits = JStr(<<>>)
             \/ /\ commits.t = "list"
                /\ \A i \in 1..Min(Len(commits.l), 3) : CommitOk(commits.l[i])

\* the embed built from the payload
Embed(data) ==
    LET repo == Get(data.o, "repository", JObj(EmptyObj))
        pusher == Get(data.o, "pusher", JObj(EmptyObj))
        commits == Get(data.o, "commits", JList(<<>>))
        ref == Get(data.o, "ref", JStr(<<>>))
        n == IF commits.t = "list" THEN Len(commits.l) ELSE 0
        author_name == Get(pusher.o, "name", UnknownName)
    IN  [title |-> Get(repo.o, "full_name", UnknownName),
         branch |-> IF HasSlash(ref.s) THEN Last(Split(ref.s)) ELSE ref.s,
         commits |-> n,
         author |-> author_name,
         compare |-> "compare" \in DOMAIN data.o,
         shown |-> Min(n, 3),
         more |-> IF n > 3 THEN n - 3 ELSE 0,
         footer |-> author_name]

\* the numbers of the commit loop: commits[:3], id[:7], len(...) > 80, [:77]
ShownCommits == 3
ShaLength == 7
MessageLimit == 80
CutLength == 77
Ellipsis == <<".", ".", ".">>
\* the characters the commit loop looks for (a string per character; the
\* grave accent and the apostrophe are spelled out)
Newline == "\n"
Backtick == "GRAVE"
Apostrophe == "APOSTROPHE"
Asterisk == "*"

\* s[:n]
Take(s, n) == SubSeq(s, 1, Min(n, Len(s)))

\* str.split(sep)[0] for a one-character separator: the text before the
\* first separator, the whole text when there is none
FirstPiece(s, sep) ==
    LET at == {i \in 1..Len(s) : s[i] = sep}
    IN  IF at = {} THEN s
        ELSE SubSeq(s, 1, (CHOOSE i \in at : \A j \in at : i <= j) - 1)

\* str.replace(old, new) for one character, and str.replace(old, '')
Replace(s, old, new) == [i \in 1..Len(s) |-> IF s[i] = old THEN new ELSE s[i]]
Remove(s, old) == SelectSeq(s, LAMBDA c : c # old)

\* display_message without the length test: the first line is never cut
display_message_uncut(message) ==
    Remove(Replace(FirstPiece(message, Newline), Backtick, Apostrophe), Asterisk)

\* the commit_message shown for a commit: the first line, cut to 77
\* characters and "..." when longer than 80, then each grave accent turned
\* into an apostrophe and each asterisk removed
display_message(message) ==
    LET first == FirstPiece(message, Newline)
        cut == IF Len(first) > MessageLimit
               THEN Take(first, CutLength) \o Ellipsis
               ELSE first
    IN  Remove(Replace(cut, Backtick, Apostrophe), Asterisk)

\* the field added for one commit
commit_field(commit) ==
    [name |-> "Commit",
     short_sha |-> Take(Get(commit.o, "id", JStr(<<>>)).s, ShaLength),
     commit_author |-> Get(Get(commit.o, "author", JObj(EmptyObj)).o, "name", UnknownName),
     commit_message |-> display_message(Get(commit.o, "message", JStr(<<>>)).s),
     url |-> Get(commit.o, "url", JStr(<<>>)),
     inline |-> FALSE]

\* commit_fields without the [:3] slice
commit_fields_all(commits) ==
    [i \in 1..Len(commits) |-> commit_field(commits[i])]

\* for i, commit in enumerate(commits[:3]): embed.add_field(...)
commit_fields(commits) ==
    [i \in 1..Min(Len(commits), ShownCommits) |-> commit_field(commits[i])]

\* if len(commits) > 3: embed.add_field(name="Mais commits", ...)
more_field(commits) ==
    IF Len(commits) > ShownCommits
    THEN <<[name |-> "Mais commits", additional |-> Len(commits) - ShownCommits,
            inline |-> FALSE]>>
    ELSE <<>>

\* the Embed process_github_push builds from the payload at time now
discord_Embed(data, now) ==
    LET repo == Get(data.o, "repository", JObj(EmptyObj))
        pusher == Get(data.o, "pusher", JObj(EmptyObj))
        commits == Get(data.o, "commits", JList(<<>>))
        ref == Get(data.o, "ref", JStr(<<>>))
        branch == IF HasSlash(ref.s) THEN Last(Split(ref.s)) ELSE ref.s
        author_name == Get(pusher.o, "name", UnknownName)
    IN  [title |-> Get(repo.o, "full_name", UnknownName),
         description |-> [branch |-> branch, commits |-> Len(commits.l)],
         timestamp |-> now,
         url |-> Get(repo.o, "html_url", JStr(<<>>)),
         author |-> [name |-> author_name,
                     icon_url |-> Get(pusher.o, "avatar_url", JStr(<<>>))],
         fields |-> <<[name |-> "Repositório",
                       full_name |-> Get(repo.o, "full_name", UnknownName),
                       html_url |-> Get(repo.o, "html_url", JStr(<<>>)),
                       inline |-> TRUE]>>
                    \o (IF "compare" \in DOMAIN data.o
                        THEN <<[name |-> "Comparar", compare |-> data.o["compare"],
                                inline |-> TRUE]>>
                        ELSE <<>>)
                    \o commit_fields(commits.l)
                    \o more_field(commits.l),
         footer |-> author_name]

\* what a call of process_github_push(data) with a resolved channel hands to
\* channel.send, or that building it raised
process_github_push(data, now) ==
    IF FormatRaises(data)
    THEN [raised |-> TRUE]
    ELSE [raised |-> FALSE, embed |-> discord_Embed(data, now)]

(* --------------------------- process_pushes --------------------------- *)
\* a task may run when it holds the event loop or the loop is idle
CanRun(w) == running = w \/ running = NoTask

\* await bot.wait_until_ready()
wait_until_ready(w) ==
    /\ task_pc[w] = "wait_ready"
    /\ CanRun(w)
    /\ ready
    /\ task_pc' = [task_pc EXCEPT ![w] = "outer"]
    /\ running' = w
    /\ UNCHANGED <<config, fmt_vars, main_pc, flask_up, bot_vars, task_item, push_queue, unfinished,
                   n_req, resp, n_put, out_vars>>

\* outer_check without the push_queue.empty() test: get() is called at once
outer_check_no_empty_test(w) ==
    /\ task_pc[w] = "outer"
    /\ CanRun(w)
    /\ IF closed
       THEN task_pc' = [task_pc EXCEPT ![w] = "done"] /\ running' = NoTask
       ELSE task_pc' = [task_pc EXCEPT ![w] = "get"] /\ running' = w
    /\ UNCHANGED <<config, fmt_vars, main_pc, flask_up, bot_vars, task_item, push_queue, unfinished,
                   n_req, resp, n_put, out_vars>>

\* while not bot.is_closed(): and, when the bot is open, the first test of
\* the inner while not push_queue.empty(): an empty queue leads to
\* asyncio.sleep(1) and back to the outer test
outer_check(w) ==
    /\ task_pc[w] = "outer"
    /\ CanRun(w)
    /\ IF closed
       THEN task_pc' = [task_pc EXCEPT ![w] = "done"] /\ running' = NoTask
       ELSE IF push_queue = <<>>
       THEN task_pc' = task_pc /\ running' = NoTask
       ELSE task_pc' = [task_pc EXCEPT ![w] = "get"] /\ running' = w
    /\ UNCHANGED <<config, fmt_vars, main_pc, flask_up, bot_vars, task_item, push_queue, unfinished,
                   n_req, resp, n_put, out_vars>>

\* inner_check without the enclosing while not bot.is_closed(): the task ends
\* when it finds the queue empty
inner_check_no_outer_loop(w) ==
    /\ task_pc[w] = "inner"
    /\ running = NoTask
    /\ IF push_queue = <<>>
       THEN task_pc' = [task_pc EXCEPT ![w] = "done"] /\ running' = NoTask
       ELSE task_pc' = [task_pc EXCEPT ![w] = "get"] /\ running' = w
    /\ UNCHANGED <<config, fmt_vars, main_pc, flask_up, bot_vars, task_item, push_queue, unfinished,
                   n_req, resp, n_put, out_vars>>

\* after asyncio.sleep(0.1): while not push_queue.empty(): again; an empty
\* queue leaves the inner loop for asyncio.sleep(1)
inner_check(w) ==
    /\ task_pc[w] = "inner"
    /\ running = NoTask
    /\ IF push_queue = <<>>
       THEN task_pc' = [task_pc EXCEPT ![w] = "outer"] /\ running' = NoTask
       ELSE task_pc' = [task_pc EXCEPT ![w] = "get"] /\ running' = w
    /\ UNCHANGED <<config, fmt_vars, main_pc, flask_up, bot_vars, task_item, push_queue, unfinished,
                   n_req, resp, n_put, out_vars>>

\* get_item reading the head of the queue without removing it
get_item_peeks(w) ==
    /\ task_pc[w] = "get"
    /\ running = w
    /\ push_queue # <<>>
    /\ LET item == Head(push_queue)
       IN  /\ push_queue' = push_queue
           /\ \E channel_found \in BOOLEAN :
                IF channel_found /\ ~FormatRaises(item.data)
                THEN /\ task_pc' = [task_pc EXCEPT ![w] = "sending"]
                     /\ task_item' = [task_item EXCEPT ![w] = item]
                     /\ attempts' = [attempts EXCEPT ![item.id] = @ + 1]
                     /\ outcome' = [outcome EXCEPT ![item.id] = "sending"]
                     /\ UNCHANGED unfinished
                ELSE /\ task_pc' = [task_pc EXCEPT ![w] = "inner"]
                     /\ unfinished' = unfinished - 1
                     /\ outcome' = [outcome EXCEPT ![item.id] =
                                      IF channel_found THEN "format_error" ELSE "no_channel"]
                     /\ UNCHANGED <<task_item, attempts>>
    /\ running' = NoTask
    /\ UNCHANGED <<config, fmt_vars, main_pc, flask_up, bot_vars, n_req, resp, n_put, sent>>

\* get_item where an unresolved channel ends the task instead of returning to
\* the loop
get_item_no_channel_ends(w) ==
    /\ task_pc[w] = "get"
    /\ running = w
    /\ push_queue # <<>>
    /\ LET item == Head(push_queue)
       IN  /\ push_queue' = Tail(push_queue)
           /\ \E channel_found \in BOOLEAN :
                IF channel_found /\ ~FormatRaises(item.data)
                THEN /\ task_pc' = [task_pc EXCEPT ![w] = "sending"]
                     /\ task_item' = [task_item EXCEPT ![w] = item]
                     /\ attempts' = [attempts EXCEPT ![item.id] = @ + 1]
                     /\ outcome' = [outcome EXCEPT ![item.id] = "sending"]
                     /\ UNCHANGED unfinished
                ELSE /\ task_pc' = [task_pc EXCEPT ![w] =
                                      IF channel_found THEN "inner" ELSE "done"]
                     /\ unfinished' = unfinished - 1
                     /\ outcome' = [outcome EXCEPT ![item.id] =
                                      IF channel_found THEN "format_error" ELSE "no_channel"]
                     /\ UNCHANGED <<task_item, attempts>>
    /\ running' = NoTask
    /\ UNCHANGED <<config, fmt_vars, main_pc, flask_up, bot_vars, n_req, resp, n_put, sent>>

\* item = push_queue.get(), then process_github_push(item['data']) up to its
\* first suspension: either it returns early (no channel, or building the
\* embed raised) and the loop goes on to task_done() and sleep(0.1), or
\* channel.send(embed=embed) is called and awaited
get_item(w) ==
    /\ task_pc[w] = "get"
    /\ running = w
    /\ push_queue # <<>>
    /\ LET item == Head(push_queue)
       IN  /\ push_queue' = Tail(push_queue)
           /\ \E channel_found \in BOOLEAN :
                IF channel_found /\ ~FormatRaises(item.data)
                THEN /\ task_pc' = [task_pc EXCEPT ![w] = "sending"]
                     /\ task_item' = [task_item EXCEPT ![w] = item]
                     /\ attempts' = [attempts EXCEPT ![item.id] = @ + 1]
                     /\ outcome' = [outcome EXCEPT ![item.id] = "sending"]
                     /\ UNCHANGED unfinished
                ELSE /\ task_pc' = [task_pc EXCEPT ![w] = "inner"]
                     /\ unfinished' = unfinished - 1
                     /\ outcome' = [outcome EXCEPT ![item.id] =
                                      IF channel_found THEN "format_error" ELSE "no_channel"]
                     /\ UNCHANGED <<task_item, attempts>>
    /\ running' = NoTask
    /\ UNCHANGED <<config, fmt_vars, main_pc, flask_up, bot_vars, n_req, resp, n_put, sent>>

\* send_done without the try/except around the send: an exception of
\* channel.send ends the task
send_done_uncaught(w) ==
    /\ task_pc[w] = "sending"
    /\ running = NoTask
    /\ \E result \in {"ok", "Forbidden", "Exception"} :
         /\ IF result = "ok"
            THEN /\ sent' = Append(sent, [id |-> task_item[w].id,
                                          embed |-> Embed(task_item[w].data)])
                 /\ task_pc' = [task_pc EXCEPT ![w] = "inner"]
                 /\ unfinished' = unfinished - 1
            ELSE /\ task_pc' = [task_pc EXCEPT ![w] = "done"]
                 /\ UNCHANGED <<sent, unfinished>>
         /\ outcome' = [outcome EXCEPT ![task_item[w].id] =
                          IF result = "ok" THEN "sent" ELSE "send_failed"]
    /\ task_item' = [task_item EXCEPT ![w] = NoItem]
    /\ UNCHANGED <<config, fmt_vars, main_pc, flask_up, bot_vars, running, push_queue, n_req, resp,
                   n_put, attempts>>

\* channel.send returns (the message is posted) or raises (Forbidden, or any
\* other exception): logged; then task_done() and sleep(0.1)
send_done(w) ==
    /\ task_pc[w] = "sending"
    /\ running = NoTask
    /\ \E result \in {"ok", "Forbidden", "Exception"} :
         /\ IF result = "ok"
            THEN sent' = Append(sent, [id |-> task_item[w].id,
                                       embed |-> Embed(task_item[w].data)])
            ELSE UNCHANGED sent
         /\ outcome' = [outcome EXCEPT ![task_item[w].id] =
                          IF result = "ok" THEN "sent" ELSE "send_failed"]
    /\ unfinished' = unfinished - 1
    /\ task_pc' = [task_pc EXCEPT ![w] = "inner"]
    /\ task_item' = [task_item EXCEPT ![w] = NoItem]
    /\ UNCHANGED <<config, fmt_vars, main_pc, flask_up, bot_vars, running, push_queue, n_req, resp,
                   n_put, attempts>>

(* --------------------------- specification ---------------------------- *)
Next ==
    \/ main_start
    \/ bot_run
    \/ on_ready
    \/ bot_close
    \/ main_return
    \/ simulate
    \/ \E req \in PostRequests : github_webhook_POST(req)
    \/ github_webhook_GET
    \/ health
    \/ \E w \in Tasks : wait_until_ready(w)
    \/ \E w \in Tasks : outer_check(w)
    \/ \E w \in Tasks : inner_check(w)
    \/ \E w \in Tasks : get_item(w)
    \/ \E w \in Tasks : send_done(w)

Spec == Init /\ [][Next]_vars

\* The event loop runs every task that can run, timers expire, and every
\* channel.send call returns or raises.
Fairness ==
    \A w \in Tasks :
        /\ WF_vars(wait_until_ready(w))
        /\ WF_vars(outer_check(w))
        /\ WF_vars(inner_check(w))
        /\ WF_vars(get_item(w))
        /\ WF_vars(send_done(w))

SpecLive == Init /\ [][Next]_vars /\ Fairness

(* ------------------ formatting runs: bodies and steps ----------------- *)
\* most commits in a generated payload, clock readings, and
\* process_github_push calls made for one item
MaxCommits == 5
MaxClock == 2
MaxFormats == 2

Pad(n) == [i \in 1..n |-> "a"]
Digits == <<"1", "2", "3", "4", "5", "6", "7", "8", "9">>
Sha(i) == <<Digits[i]>> \o <<"b", "c", "d", "e", "f", "0", "1", "2">>
Dev == JObj([name |-> JStr(<<"d", "e", "v">>)])

\* the i-th commit of a push, and a commit with the message m
CommitN(i) == JObj([id |-> JStr(Sha(i)), message |-> JStr(<<"c", Digits[i]>>),
                    url |-> JStr(<<"u", Digits[i]>>), author |-> Dev])
CommitMsg(m) == JObj([id |-> JStr(Sha(1)), message |-> JStr(m),
                      url |-> JStr(<<"u">>), author |-> Dev])
\* a commit entry with an id only
CommitBare == JObj([id |-> JStr(Sha(1))])

RefFeature == RefsHeads \o <<"f", "/", "x">>
RefBare == <<"m">>
RefTag == <<"r", "e", "f", "s", "/", "t", "a", "g", "s", "/", "v">>
Refs == {RefMain, RefFeature, RefBare, RefTag, <<>>}

\* commit messages around the limit, with the characters the loop rewrites
\* on both sides of the cut, and with several lines
Messages ==
    {<<"f", "i", "x">>,
     <<>>,
     <<Asterisk, Backtick, "a", Asterisk>>,
     <<Newline, "a">>,
     <<"a", Newline, Backtick, Asterisk>>,
     Pad(MessageLimit - 1),
     Pad(MessageLimit),
     Pad(MessageLimit + 1),
     <<Backtick>> \o Pad(MessageLimit),
     Pad(CutLength - 1) \o <<Asterisk, Backtick, Asterisk, "x", "y">>,
     Pad(MessageLimit - 2) \o <<Asterisk, Asterisk, Asterisk>>,
     Pad(3) \o <<Newline>> \o Pad(MessageLimit + 5),
     Pad(MessageLimit + 5) \o <<Newline, "b">>}

WithRef(r) == JObj([BodyMain.o EXCEPT !.ref = JStr(r)])
WithCommits(l) == JObj([BodyMain.o EXCEPT !.commits = JList(l)])
\* BodyMain with only the keys of S present
Restrict(S) == JObj([k \in S |-> BodyMain.o[k]])
PushKeys == {"ref", "repository", "pusher", "commits"}

FormatBodies ==
    {WithRef(r) : r \in Refs}
    \cup {Restrict(S) : S \in SUBSET PushKeys}
    \cup {WithCommits([i \in 1..n |-> CommitN(i)]) : n \in 0..MaxCommits}
    \cup {WithCommits(<<CommitMsg(m)>>) : m \in Messages}
    \cup {WithCommits(<<CommitBare>>), BodyNullPusher, BodyNumRef, test_data, Unparsable}

pipeline_vars == <<config, main_pc, flask_up, bot_vars, task_vars, push_queue, unfinished,
                   n_req, resp, n_put, out_vars>>

\* one request body, before the push branch has seen it; the rest of the
\* program is at rest
InitFormat ==
    /\ DISCORD_TOKEN = "tok"
    /\ GITHUB_SECRET = ""
    /\ CHANNEL_ID = 1
    /\ main_pc = "start"
    /\ flask_up = FALSE
    /\ ready = FALSE
    /\ closed = FALSE
    /\ n_ready = 0
    /\ task_pc = [w \in Tasks |-> "none"]
    /\ task_item = [w \in Tasks |-> NoItem]
    /\ running = NoTask
    /\ push_queue = <<>>
    /\ unfinished = 0
    /\ n_req = 0
    /\ resp = NoResp
    /\ n_put = 0
    /\ attempts = <<>>
    /\ outcome = <<>>
    /\ sent = <<>>
    /\ fmt_data \in FormatBodies
    /\ fmt_clock = 0
    /\ fmt_reply = NoResp
    /\ fmt_msgs = <<>>

\* the push branch of github_webhook handles the body
webhook_push ==
    /\ fmt_reply = NoResp
    /\ fmt_reply' = push_branch(fmt_data)
    /\ UNCHANGED <<pipeline_vars, fmt_data, fmt_clock, fmt_msgs>>

\* process_github_push is called for the item that was put
format_push ==
    /\ fmt_reply # NoResp
    /\ fmt_reply.put # <<>>
    /\ Len(fmt_msgs) < MaxFormats
    /\ fmt_msgs' = Append(fmt_msgs, process_github_push(fmt_reply.put[1].data, fmt_clock))
    /\ UNCHANGED <<pipeline_vars, fmt_data, fmt_clock, fmt_reply>>

\* time passes: datetime.now() returns a later instant
clock_tick ==
    /\ fmt_clock < MaxClock
    /\ fmt_clock' = fmt_clock + 1
    /\ UNCHANGED <<pipeline_vars, fmt_data, fmt_reply, fmt_msgs>>

NextFormat ==
    \/ webhook_push
    \/ format_push
    \/ clock_tick

SpecFormat == InitFormat /\ [][NextFormat]_vars

(* ------------------------------ claims -------------------------------- *)
\* whether the request is a POST step of this request
PostStep(req) == github_webhook_POST(req)
\* the request carries the signature the specification asks for
SpecVerified(req) == GITHUB_SECRET = "" \/ req.sig = Hmac(GITHUB_SECRET, req.body)
SentIds == {sent[i].id : i \in 1..Len(sent)}

\* C1: messages are posted to the channel in the order their items were
\* enqueued: no item is sent before an item enqueued earlier.
C1_FifoDelivery ==
    \A i, j \in 1..Len(sent) : i < j => sent[i].id < sent[j].id

\* C2: with a secret configured, a POST without the X-Hub-Signature-256
\* header is answered 401 and puts nothing on the queue, whatever the event.
C2_MissingSignatureRejected ==
    [][\A req \in PostRequests :
         (GITHUB_SECRET # "" /\ req.sig = SigAbsent /\ PostStep(req))
         => (resp'.code = 401 /\ push_queue' = push_queue)]_vars

\* C3: with a secret configured, a POST whose signature header differs from
\* "sha256=" + HMAC-SHA256(secret, body) is answered 401 "Invalid signature"
\* and leaves the queue unchanged, for every event type.
C3_BadSignatureRejected ==
    [][\A req \in PostRequests :
         (GITHUB_SECRET # "" /\ req.sig # SigAbsent
            /\ req.sig # Hmac(GITHUB_SECRET, req.body) /\ PostStep(req))
         => (resp' = [code |-> 401, error |-> "Invalid signature"]
             /\ push_queue' = push_queue)]_vars

\* C4: a verified push POST whose body is valid JSON is answered 200
\* "received" with queued true, and exactly one item is appended.
C4_ValidPushQueued ==
    [][\A req \in PostRequests :
         (req.event = "push" /\ SpecVerified(req) /\ req.body # Unparsable
            /\ PostStep(req))
         => (/\ resp'.code = 200
             /\ resp'.status = "received"
             /\ resp'.queued
             /\ Len(push_queue') = Len(push_queue) + 1)]_vars

NoJsonData == [code |-> 400, error |-> "No JSON data"]
Status(r) == IF "status" \in DOMAIN r THEN r.status ELSE "none"

\* C5 as stated: a push POST whose body does not parse is answered 400
\* "No JSON data" and leaves the queue unchanged.
C5_UnparsablePush400 ==
    [][\A req \in PostRequests :
         (req.event = "push" /\ req.body = Unparsable /\ PostStep(req))
         => (resp' = NoJsonData /\ push_queue' = push_queue)]_vars

\* C5 amended: a push POST whose body does not parse leaves the queue
\* unchanged, and is answered 400 "No JSON data" when its signature check
\* passes; no queued item ever carries an unparsed body.
C5_UnparsablePushAmended ==
    /\ [][\A req \in PostRequests :
            (req.event = "push" /\ req.body = Unparsable /\ PostStep(req))
            => /\ push_queue' = push_queue
               /\ verify_signature(req.body, GITHUB_SECRET, req.sig) = "true"
                    => resp' = NoJsonData]_vars
    /\ [](\A i \in 1..Len(push_queue) :
            push_queue[i].data.t \notin {"unparsable", "null"})

\* a request was answered 400 "No JSON data" and nothing was ever enqueued
C5_Witness == resp = NoJsonData /\ n_req > 0 /\ n_put = 0 /\ push_queue = <<>>

\* C6: ping POSTs, POSTs of any other non-push event, GET /github-webhook and
\* GET /health leave the queue unchanged; the queue only grows by a push POST
\* or the simulate command.
C6_OnlyPushEnqueues ==
    [][/\ push_queue' # push_queue
            => /\ \A req \in PostRequests : req.event # "push" => ~PostStep(req)
               /\ ~github_webhook_GET
               /\ ~health
       /\ Len(push_queue') > Len(push_queue)
            => \/ simulate
               \/ \E req \in PostRequests : req.event = "push" /\ PostStep(req)]_vars

\* a ping was answered while the one item enqueued before it is still queued
C6_Witness ==
    /\ Status(resp) = "pong"
    /\ n_req = 2
    /\ n_put = 1
    /\ Len(push_queue) = 1

Ids == 1..MaxRequests
OutcomeOf(id) == IF id <= Len(outcome) THEN outcome[id] ELSE "none"
Final == {"sent", "send_failed", "no_channel", "format_error"}
\* the places an item can be: queued, held by a task, posted
QueuedIds == {push_queue[i].id : i \in 1..Len(push_queue)}
HeldIds == {task_item[w].id : w \in Tasks} \ {0}
Copies(id) ==
    Cardinality({i \in 1..Len(push_queue) : push_queue[i].id = id})
    + Cardinality({w \in Tasks : task_item[w].id = id})
    + Cardinality({i \in 1..Len(sent) : sent[i].id = id})

C8_ExactlyOnce ==
    /\ [][\A req \in PostRequests :
            (Status(resp') = "received" /\ PostStep(req))
            => /\ n_put' = n_put + 1
               /\ Len(push_queue') = Len(push_queue) + 1
               /\ push_queue'[Len(push_queue')].id = n_put'
               /\ push_queue'[Len(push_queue')].data = req.body]_vars
    /\ [](\A id \in Ids : id <= n_put =>
            /\ attempts[id] <= 1
            /\ Copies(id) <= 1
            /\ id \in QueuedIds => outcome[id] = "queued")
    /\ [][\A id \in Ids : OutcomeOf(id) \in Final => OutcomeOf(id)' = OutcomeOf(id)]_vars

\* two accepted pushes were each taken once and each posted once
C8_Witness ==
    /\ n_put = 2
    /\ attempts = <<1, 1>>
    /\ Len(sent) = 2
    /\ Status(resp) = "received"

\* C9 as stated: while the bot is ready and open and sends return, a message
\* is eventually posted for every enqueued item (a send that raised aside).
C9_EveryItemSent ==
    \A id \in Ids : (ready /\ OutcomeOf(id) = "queued")
                       ~> (closed \/ id \in SentIds \/ OutcomeOf(id) = "send_failed")

\* C9 amended: while the bot is ready and open and sends return, every
\* enqueued item is eventually taken and handled and the queue empties; a
\* handled item has one message if its channel resolved, its embed was built
\* and its send succeeded, and none otherwise.
C9_EveryItemHandled ==
    /\ \A id \in Ids : (ready /\ OutcomeOf(id) \in {"queued", "sending"})
                          ~> (closed \/ OutcomeOf(id) \in Final)
    /\ (ready /\ push_queue # <<>>) ~> (closed \/ push_queue = <<>>)
    /\ [](\A id \in Ids :
            Cardinality({i \in 1..Len(sent) : sent[i].id = id})
              = IF OutcomeOf(id) = "sent" THEN 1 ELSE 0)
    /\ [](\A id \in Ids : OutcomeOf(id) \in {"no_channel", "format_error"}
            => attempts[id] = 0)

\* after a single accepted push the queue is empty again and one message
\* has been posted
C9_Witness ==
    /\ ~closed
    /\ n_put = 1
    /\ Status(resp) = "received"
    /\ push_queue = <<>>
    /\ Len(sent) = 1
    /\ outcome = <<"sent">>

\* C10: before the ready signal has fired no item has been taken from the
\* queue and no send attempted: everything put so far is still queued.
C10_NothingBeforeReady ==
    ~ready =>
        /\ Len(push_queue) = n_put
        /\ \A id \in 1..n_put : outcome[id] = "queued" /\ attempts[id] = 0
        /\ sent = <<>>
        /\ \A w \in Tasks : task_pc[w] \in {"none", "wait_ready"}

\* the bot is connecting, not yet ready, and webhooks have queued two items
C10_Witness ==
    /\ main_pc = "bot_run"
    /\ ~ready
    /\ Len(push_queue) = 2

\* the process_pushes tasks that are inside their while not bot.is_closed() loop
ConsumerLoops == {w \in Tasks : task_pc[w] \in {"outer", "inner", "get", "sending"}}

\* C11: whatever the sequence of ready events, at most one process_pushes
\* consumer loop is running at any time.
C11_SingleWorker == Cardinality(ConsumerLoops) <= 1

\* a task is suspended inside channel.send
SendPending == \E w \in Tasks : task_pc[w] = "sending"

\* C12: while a task is suspended inside a send, the Flask thread still
\* handles every POST: the request is answered as the handler alone decides
\* (a well-formed, correctly signed push gets 200 "received" and one more
\* queued item), and the step makes no send call and changes no task.
C12_IntakeNotBlocked ==
    /\ []((SendPending /\ flask_up /\ n_req < MaxRequests)
            => \A req \in PostRequests : ENABLED github_webhook_POST(req))
    /\ [][\A req \in PostRequests :
            (SendPending /\ PostStep(req))
            => /\ resp' = webhook_post(req, GITHUB_SECRET).resp
               /\ Len(push_queue') = Len(push_queue) + Len(webhook_post(req, GITHUB_SECRET).put)
               /\ (req.event = "push" /\ req.body = BodyMain
                     /\ req.sig = Hmac(GITHUB_SECRET, req.body))
                    => (Status(resp') = "received" /\ push_queue' # push_queue)
               /\ UNCHANGED <<task_vars, sent>>
               /\ \A id \in 1..n_put : attempts'[id] = attempts[id]]_vars

\* a push was accepted and its item queued while the send of the item before
\* it is still pending
C12_Witness ==
    /\ \E w \in Tasks : task_pc[w] = "sending" /\ task_item[w].id = 1
    /\ Status(resp) = "received"
    /\ n_put = 2
    /\ QueuedIds = {2}

\* C13: the messages built for the same queued item by two calls of
\* process_github_push are identical in every component, timestamp included.
C13_FormatDeterministic ==
    \A i, j \in 1..Len(fmt_msgs) : fmt_msgs[i] = fmt_msgs[j]

\* the branch name of a ref: the text after "refs/heads/", or the ref itself
\* when it does not start with that prefix
BranchOf(ref) ==
    IF Len(ref) >= Len(RefsHeads) /\ SubSeq(ref, 1, Len(RefsHeads)) = RefsHeads
    THEN SubSeq(ref, Len(RefsHeads) + 1, Len(ref))
    ELSE ref
\* the payload's ref is "refs/heads/" + X, or has no slash at all
BranchRef(data) ==
    /\ data.t = "obj"
    /\ "ref" \in DOMAIN data.o
    /\ data.o["ref"].t = "str"
    /\ \/ BranchOf(data.o["ref"].s) # data.o["ref"].s
       \/ ~HasSlash(data.o["ref"].s)

\* C14: for a push whose ref is "refs/heads/" + X, or a ref without a slash,
\* the branch in the HTTP response and the branch in every message built for
\* the item are X (the ref itself when it has no slash).
C14_BranchStripsPrefix ==
    (BranchRef(fmt_data) /\ fmt_reply # NoResp) =>
        /\ fmt_reply.resp.code = 200
        /\ fmt_reply.resp.branch = BranchOf(fmt_data.o["ref"].s)
        /\ \A i \in 1..Len(fmt_msgs) :
             ~fmt_msgs[i].raised
             => fmt_msgs[i].embed.description.branch = BranchOf(fmt_data.o["ref"].s)

\* the commits list of the payload ([] when the key is absent)
CommitsOf(data) == Get(data.o, "commits", JList(<<>>)).l
CommitFields(embed) == SelectSeq(embed.fields, LAMBDA f : f.name = "Commit")
MoreFields(embed) == SelectSeq(embed.fields, LAMBDA f : f.name = "Mais commits")

\* C15: a message built for a push with n commits has min(n, 3) commit
\* fields, for the first min(n, 3) commits in payload order, followed by one
\* "+(n-3)" field exactly when n > 3, and its description reports n.
C15_CommitDisplayCap ==
    \A k \in 1..Len(fmt_msgs) :
        ~fmt_msgs[k].raised =>
            LET embed == fmt_msgs[k].embed
                commits == CommitsOf(fmt_data)
                n == Len(commits)
                shown == CommitFields(embed)
                more == MoreFields(embed)
            IN  /\ Len(shown) = IF n < 3 THEN n ELSE 3
                /\ \A i \in 1..Len(shown) :
                     /\ shown[i].short_sha
                          = SubSeq(commits[i].o["id"].s, 1, Len(shown[i].short_sha))
                     /\ shown[i].url = Get(commits[i].o, "url", JStr(<<>>))
                /\ Len(more) = IF n > 3 THEN 1 ELSE 0
                /\ n > 3 => /\ more[1].additional = n - 3
                            /\ embed.fields[Len(embed.fields)] = more[1]
                /\ embed.description.commits = n

\* a message was built for a push with the most commits tried: three commit
\* fields and the field for the others
C15_Witness ==
    /\ fmt_data.t = "obj"
    /\ Len(CommitsOf(fmt_data)) = MaxCommits
    /\ Len(fmt_msgs) > 0
    /\ ~fmt_msgs[1].raised
    /\ Len(CommitFields(fmt_msgs[1].embed)) = 3
    /\ Len(MoreFields(fmt_msgs[1].embed)) = 1

\* the message text of a commit entry ('' when the key is absent)
MessageOf(commit) == Get(commit.o, "message", JStr(<<>>)).s
\* first is the first line of raw: a prefix of it that holds no newline and
\* ends where raw ends or where its first newline stands
IsFirstLine(first, raw) ==
    /\ Len(first) <= Len(raw)
    /\ first = SubSeq(raw, 1, Len(first))
    /\ \A i \in 1..Len(first) : first[i] # Newline
    /\ Len(first) < Len(raw) => raw[Len(first) + 1] = Newline
Has(s, c) == \E i \in 1..Len(s) : s[i] = c
\* the text with each grave accent as an apostrophe and without asterisks
Cleaned(s) == Remove(Replace(s, Backtick, Apostrophe), Asterisk)

\* C16: the text shown for a commit comes from the first line of its message
\* only, is at most 80 characters long, holds no grave accent and no
\* asterisk, is the whole first line when that has at most 80 characters,
\* and otherwise is its first 77 characters followed by "...".
C16_MessageTruncation ==
    \A k \in 1..Len(fmt_msgs) :
        ~fmt_msgs[k].raised =>
            LET shown == CommitFields(fmt_msgs[k].embed)
            IN  \A i \in 1..Len(shown) :
                  LET raw == MessageOf(CommitsOf(fmt_data)[i])
                      text == shown[i].commit_message
                  IN  /\ Len(text) <= 80
                      /\ ~Has(text, Backtick) /\ ~Has(text, Asterisk) /\ ~Has(text, Newline)
                      /\ \E n \in 0..Len(raw) :
                           LET first == SubSeq(raw, 1, n)
                           IN  /\ IsFirstLine(first, raw)
                               /\ n <= 80 => text = Cleaned(first)
                               /\ n > 80 =>
                                    /\ text = Cleaned(SubSeq(first, 1, 77)) \o <<".", ".", ".">>
                                    /\ SubSeq(text, Len(text) - 2, Len(text)) = <<".", ".", ".">>

\* a message was built for a commit whose one-line message has 81
\* characters: 77 of them are shown, then "..."
C16_Witness ==
    /\ fmt_data = WithCommits(<<CommitMsg(Pad(81))>>)
    /\ Len(fmt_msgs) > 0
    /\ ~fmt_msgs[1].raised
    /\ CommitFields(fmt_msgs[1].embed)[1].commit_message = Pad(77) \o <<".", ".", ".">>

\* the payloads that are BodyMain without some of its keys
PartialBodies == {Restrict(S) : S \in SUBSET PushKeys}

\* C17: a push payload that is a JSON object with any of repository, pusher
\* and commits absent is answered 200 "received" and enqueued once, and the
\* message built for it carries placeholders for what is absent.
C17_GracefulDegradation ==
    (fmt_data \in PartialBodies /\ fmt_reply # NoResp) =>
        /\ fmt_reply.resp.code = 200
        /\ Status(fmt_reply.resp) = "received"
        /\ Len(fmt_reply.put) = 1
        /\ \A k \in 1..Len(fmt_msgs) :
             /\ ~fmt_msgs[k].raised
             /\ "repository" \notin DOMAIN fmt_data.o
                  => /\ fmt_msgs[k].embed.title = UnknownName
                     /\ fmt_msgs[k].embed.url = JStr(<<>>)
             /\ "pusher" \notin DOMAIN fmt_data.o
                  => /\ fmt_msgs[k].embed.author.name = UnknownName
                     /\ fmt_msgs[k].embed.footer = UnknownName
             /\ "commits" \notin DOMAIN fmt_data.o
                  => /\ fmt_msgs[k].embed.description.commits = 0
                     /\ Len(fmt_msgs[k].embed.fields) = 1

\* what github_webhook answers once the signature check has passed
Classified(req) ==
    IF req.event = "ping" THEN ping_branch(req.body).resp
    ELSE IF req.event = "push" THEN push_branch(req.body).resp
    ELSE [code |-> 200, status |-> "ignored", event |-> req.event]

\* C18: with an empty secret verify_signature returns true for every body
\* and every signature header, present or absent, and every POST is answered
\* by its event type's branch, never 401.
C18_EmptySecretBypass ==
    /\ [](\A req \in PostRequests : verify_signature(req.body, "", req.sig) = "true")
    /\ [][\A req \in PostRequests :
            (GITHUB_SECRET = "" /\ PostStep(req))
            => (resp'.code # 401 /\ resp' = Classified(req))]_vars

\* with no secret configured a push was received and its item queued
C18_Witness ==
    /\ GITHUB_SECRET = ""
    /\ Status(resp) = "received"
    /\ n_put = 1
    /\ Len(push_queue) = 1

\* C19: when the bot token is missing or the channel id is 0, main() returns
\* before anything is started: the Flask thread never serves, bot.run is
\* never called, no task exists, and nothing is ever enqueued or sent.
C19_ConfigErrorFatal ==
    (DISCORD_TOKEN = "" \/ CHANNEL_ID = 0) =>
        /\ main_pc \in {"start", "exit"}
        /\ ~flask_up
        /\ ~ready
        /\ \A w \in Tasks : task_pc[w] = "none"
        /\ n_req = 0
        /\ n_put = 0
        /\ push_queue = <<>>
        /\ sent = <<>>

\* main() has returned on a missing token or a channel id of 0
C19_Witness ==
    /\ DISCORD_TOKEN = "" \/ CHANNEL_ID = 0
    /\ main_pc = "exit"

\* C20: an item whose channel did not resolve has no send attempt and is
\* gone from the queue for good; the step that drops it marks it done
\* (task_done) and returns the task to its loop, no task ends while the bot
\* is open, and an item queued behind it is still taken and handled.
C20_NoChannelSkipsItem ==
    /\ [](\A id \in Ids : OutcomeOf(id) = "no_channel"
            => /\ attempts[id] = 0
               /\ id \notin QueuedIds /\ id \notin HeldIds /\ id \notin SentIds)
    /\ [][\A id \in Ids :
            (OutcomeOf(id) = "queued" /\ OutcomeOf(id)' = "no_channel")
            => /\ Len(push_queue') = Len(push_queue) - 1
               /\ unfinished' = unfinished - 1
               /\ sent' = sent
               /\ \E w \in Tasks : task_pc[w] = "get" /\ task_pc'[w] = "inner"]_vars
    /\ [](\A w \in Tasks : (task_pc[w] = "done") => closed)
    /\ (OutcomeOf(1) = "no_channel" /\ OutcomeOf(2) = "queued")
          ~> (closed \/ OutcomeOf(2) \in Final)

\* the channel did not resolve for the first item, and the item queued behind
\* it was sent
C20_Witness ==
    /\ ~closed
    /\ outcome = <<"no_channel", "sent">>
    /\ attempts = <<0, 1>>
    /\ Len(sent) = 1

\* C21: for an accepted push, the branch in the HTTP response equals the
\* branch in every message built for the queued item, also when the payload
\* has no ref.
C21_BranchConsistent ==
    (fmt_reply # NoResp /\ Status(fmt_reply.resp) = "received") =>
        \A k \in 1..Len(fmt_msgs) :
            ~fmt_msgs[k].raised
            => fmt_msgs[k].embed.description.branch = fmt_reply.resp.branch

\* C22: whenever a task is about to execute push_queue.get(), having seen
\* the queue non-empty, the queue is still non-empty and the task holds the
\* event loop, whatever the Flask threads and the other tasks did meanwhile;
\* so the get never blocks, and the only steps that shorten the queue are
\* such gets.
C22_GetNeverBlocks ==
    /\ [](\A w \in Tasks : task_pc[w] = "get" => (push_queue # <<>> /\ running = w))
    /\ [][Len(push_queue') < Len(push_queue)
            => \E w \in Tasks : /\ task_pc[w] = "get"
                                /\ running = w
                                /\ push_queue' = Tail(push_queue)]_vars

\* a second task exists, and a task that saw the queue non-empty is about to
\* call get() with two items queued
C22_Witness ==
    /\ n_ready = 2
    /\ \E w \in Tasks : task_pc[w] = "get" /\ running = w
    /\ \E w \in Tasks : task_pc[w] \in {"outer", "inner"}
    /\ Len(push_queue) = 2

====
